---------------------------- MODULE Spec2Model ----------------------------
(***************************************************************************)
(* Task orchestration pipeline of plantit (celery_tasks.py).               *)
(*                                                                         *)
(* One task record, the Celery queue of pending stage invocations (each    *)
(* with its eta and the callbacks chained behind it), a clock, the Redis   *)
(* cache entry results/<guid>, and one action per stage handler.  A stage  *)
(* handler runs as one step: it loads the task, does its work and saves.   *)
(***************************************************************************)
EXTENDS Integers, Sequences, FiniteSets, Bags, TLC

(* ------------------------------ bounds --------------------------------- *)

\* the clock runs from 0 (creation of the task) to MaxTime
MaxTime == 12

\* the workflow's configured time limit: due_time = creation time + TimeLimit
TimeLimit == 6

\* int(environ.get('TASKS_REFRESH_SECONDS')), the configured polling interval
RefreshDelay == 1

\* int(environ.get('TASKS_CLEANUP_MINUTES')) * 60, the configured cleanup delay
CleanupDelay == 1

\* the number of Celery worker processes
Workers == 2

\* the number of executions of the periodic job that are followed
Executions == 2

\* the seconds that pass in one unit of the clock of the periodic job
LockTickSeconds == 100

(* ------------------------- program constants --------------------------- *)

\* "LOCK_EXPIRE = 60 * 5", in seconds
LOCK_EXPIRE == 300

\* countdown of the task chain enqueued at creation
InitialCountdown == 5

\* find_stranded: warning past 2 periods, rescue past 5 periods
StrandedWarnFactor == 2

StrandedRescueFactor == 5

(* ------------------------------ values --------------------------------- *)

\* Python's None, for a guid, a job id or a job status
Nil == "None"

\* an unset timestamp (completed)
NoTime == -1

\* the guid of the task
Guid == "t1"

\* the identifier the scheduler gives the outbound transfer job
PushId == "j3"

CREATED == "CREATED"

RUNNING == "RUNNING"

COMPLETED == "COMPLETED"

FAILURE == "FAILURE"

CANCELED == "CANCELED"

TIMEOUT == "TIMEOUT"

TaskStatus == {CREATED, RUNNING, COMPLETED, FAILURE, CANCELED, TIMEOUT}

Terminal == {COMPLETED, FAILURE, CANCELED, TIMEOUT}

\* scheduler status buckets of the Task model (representative members)
SLURM_FAILURE_STATES == {"FAILED"}

SLURM_CANCELLED_STATES == {"CANCELLED"}

SLURM_TIMEOUT_STATES == {"TIMEOUT"}

SLURM_SUCCESS_STATES == {"COMPLETED"}

\* raw statuses the scheduler can report for a job it finds
RawStatuses ==
    {"RUNNING", "COMPLETING"} \cup SLURM_FAILURE_STATES \cup SLURM_CANCELLED_STATES
        \cup SLURM_TIMEOUT_STATES \cup SLURM_SUCCESS_STATES

\* the output file names the workflow declares
Outputs == {"a", "b"}

\* the output collection of the workflow, options['output']['to']
OutputPath == "P"

\* "'/iplant/home/shared'": the public shared directory of the data store
SharedDir == "/iplant/home/shared"

\* options['input']['path'] inside the public shared directory
PublicInput == "/iplant/home/shared/d"

\* options['input']['path'] in the home of a user whose name starts with
\* "shared"
LookalikeInput == "/iplant/home/sharedlab/d"

\* options['input']['path'] in the home of the task's owner
PrivateInput == "/iplant/home/alice/d"

\* the values of options['input']['path']; Nil when the workflow declares no
\* input ('input' not in options)
Inputs == {Nil, PublicInput, LookalikeInput, PrivateInput, OutputPath}

\* "'/iplant/home/shared' in input_path": the str contains SharedDir
ContainsSharedDir(path) == path \in {PublicInput, LookalikeInput}

\* what the storage client can list at the output path: {'path': <dir>/<name>}
ListedFiles == [dir : {OutputPath}, name : Outputs \cup {"c"}]

Stages ==
    {"prep_environment", "share_data", "submit_jobs", "poll_jobs",
     "test_results", "test_push", "unshare_data", "tidy_up"}

\* the stages whose schedulings and runs are counted
Counted == {"test_results", "test_push", "unshare_data", "tidy_up"}

VARIABLES
    task,       \* the Task row
    workflow,   \* the task's workflow configuration and owner
    queue,      \* bag of pending Celery messages
    cache,      \* Redis entry results/<guid>
    now,        \* timezone.now()
    scheduled,  \* per counted stage, how many messages were enqueued for it
    executed,   \* per counted stage, how many times it ran with a guid
    seen,       \* the buckets poll_jobs has observed for the job
    swept,      \* find_stranded has run at the current time
    last,       \* what the last step did
    deleted,    \* the Task row has been deleted
    flight,     \* per worker, the stage execution it is in the middle of
    lock,       \* the Django cache entry that serves as a periodic job's lock
    periodic,   \* per execution of the periodic job, where it is
    validated,  \* a workflow configuration and what its validation returned
    jobqueue,   \* a scheduler's answers about a job and the status derived
    health,     \* the agents' health flags and what the health checks did
    composer,   \* the task fields, events and options the composer touches
    triggered   \* a triggered task, the data it watches and what its runs created

vars == <<task, workflow, queue, cache, now, scheduled, executed, seen, swept, last,
          deleted, flight, lock, periodic, validated, jobqueue, health,
          composer, triggered>>

\* what the stage handlers, run as one step each, leave alone
aux ==
    <<deleted, flight, lock, periodic, validated, jobqueue, health, composer, triggered>>

(* ------------------------------ helpers -------------------------------- *)

\* a signature applied with apply_async: stage(guid) at eta, callbacks chained
Msg(stage, guid, eta, callbacks) ==
    [stage |-> stage, guid |-> guid, eta |-> eta, callbacks |-> callbacks]

One(m) == SetToBag({m})

\* number of messages for a stage in a bag
Count(bag, stage) ==
    LET ms == {m \in BagToSet(bag) : m.stage = stage}
        RECURSIVE Sum(_)
        Sum(S) == IF S = {} THEN 0
                  ELSE LET m == CHOOSE x \in S : TRUE
                       IN  CopiesIn(m, bag) + Sum(S \ {m})
    IN  Sum(ms)

\* Celery: when a stage returns and self.request.callbacks is intact, the
\* next signature of the chain is applied with the return value
Callback(m, ret, halted) ==
    IF halted \/ m.callbacks = <<>> THEN EmptyBag
    ELSE One(Msg(Head(m.callbacks), ret, now, Tail(m.callbacks)))

\* a worker can take a message once its eta has come
Deliverable(m, stage) ==
    /\ m \in BagToSet(queue)
    /\ m.stage = stage
    /\ m.eta <= now

\* the record of a step: the operation, the status and job_status it found,
\* the task fields it changed, the scheduler's answer, the exception raised,
\* the shared procedure run, the remote calls made, the messages enqueued,
\* whether it cleared the callbacks, what it returned and what it logged,
\* the files it expected and found, the paths it asked to have shared and
\* the scheduler jobs it submitted
BaseLast(op, guid) ==
    [op |-> op, guid |-> guid, pre_status |-> task.status,
     pre_job_status |-> task.job_status, changed |-> {}, sched |-> "n/a",
     exc |-> "none", proc |-> "none", remote |-> {}, enq |-> EmptyBag,
     halted |-> FALSE, ret |-> Nil, message |-> "none",
     expected |-> {}, actual |-> {}, paths |-> {}, jobs |-> <<>>]

\* the fields in which two task records differ
Changed(t1, t2) == {f \in DOMAIN t1 : t1[f] # t2[f]}

\* the common tail of every stage step
Step(m, t2, enq, l) ==
    /\ task' = t2
    /\ queue' = (queue (-) One(m)) (+) enq
    /\ scheduled' = [s \in Counted |-> scheduled[s] + Count(enq, s)]
    /\ executed' = IF m.stage \in Counted /\ m.guid # Nil
                   THEN [executed EXCEPT ![m.stage] = @ + 1]
                   ELSE executed
    /\ last' = [l EXCEPT !.enq = enq, !.changed = Changed(task, t2)]
    /\ UNCHANGED <<workflow, now, swept>>
    /\ UNCHANGED aux

\* a stage step that touches neither the Redis entry nor the observed buckets
Plain(m, t2, enq, l) ==
    /\ Step(m, t2, enq, l)
    /\ UNCHANGED <<cache, seen>>

\* "if guid is None: ... callbacks = None; return"
AbortNil(m) ==
    Plain(m, task, EmptyBag,
         [BaseLast(m.stage, m.guid) EXCEPT !.halted = TRUE, !.message = "aborting"])

\* the check misspelt with the scheduler's word for it
IsCanceledMisspelt(t) == t.status = "CANCELLED"

\* "if task.status == TaskStatus.CANCELED"
IsCanceled(t) == t.status = CANCELED

\* "Task ... cancelled, aborting": callbacks = None; return
AbortCanceled(m) ==
    Plain(m, task, EmptyBag,
         [BaseLast(m.stage, m.guid) EXCEPT !.halted = TRUE, !.message = "cancelled"])

\* completed mistaken for due_time
FailedTaskStampsDue(t) ==
    [t EXCEPT !.status = FAILURE, !.updated = now, !.completed = now,
              !.due_time = now]

\* the task as __handle_job_failure saves it
FailedTask(t) ==
    [t EXCEPT !.status = FAILURE, !.updated = now, !.completed = now]

\* the failure procedure without the delayed cleanup
FailureMsgsNoTidyUp == One(Msg("unshare_data", Guid, now, <<>>))

\* what __handle_job_failure schedules
FailureMsgs ==
    One(Msg("unshare_data", Guid, now, <<>>))
        (+) One(Msg("tidy_up", Guid, now + CleanupDelay, <<>>))

\* the job id dropped along with the job status
SucceededTaskClearsJob(t) ==
    [t EXCEPT !.updated = now, !.job_status = COMPLETED, !.job_id = Nil]

\* the task as __handle_job_success saves it
SucceededTask(t) ==
    [t EXCEPT !.updated = now, !.job_status = COMPLETED]

\* the verification stages enqueued side by side instead of chained
SuccessMsgsUnchained ==
    One(Msg("test_results", Guid, now, <<>>))
        (+) One(Msg("test_push", Guid, now, <<>>))
        (+) One(Msg("unshare_data", Guid, now, <<>>))
        (+) One(Msg("tidy_up", Guid, now + CleanupDelay, <<>>))

\* what __handle_job_success schedules
SuccessMsgs ==
    One(Msg("test_results", Guid, now, <<"test_push", "unshare_data">>))
        (+) One(Msg("tidy_up", Guid, now + CleanupDelay, <<>>))

\* "except: Could not find task ...": callbacks = None; return
AbortNotFound(m) ==
    Plain(m, task, EmptyBag,
         [BaseLast(m.stage, m.guid) EXCEPT !.halted = TRUE, !.message = "not_found"])

(* ---------------------- workflow configuration values ------------------ *)

\* a value of a workflow configuration dictionary: a key that is absent, a
\* str of len characters, a bool (0 for False, 1 for True), None, or a list
\* of len elements
Value(kind, len) == [kind |-> kind, len |-> len]

Absent == Value("absent", 0)

False == Value("bool", 0)

True == Value("bool", 1)

\* the values of the keys name, author, image and commands: absent, '',
\* a non-empty str such as 'docker://alpine', True
Scalars == {Absent, Value("str", 0), Value("str", 1), True}

\* the values of the key mount: absent, True, None, [], a non-empty list
Mounts == {Absent, True, Value("none", 0), Value("list", 0), Value("list", 1)}

\* the workflow configuration dictionaries
Configs ==
    [name : Scalars, author : Scalars, image : Scalars, commands : Scalars,
     mount : Mounts]

\* a configuration with the four attributes set and no mount
ValidConfig ==
    [name |-> Value("str", 1), author |-> Value("str", 1),
     image |-> Value("str", 1), commands |-> Value("str", 1), mount |-> Absent]

\* the options have not been parsed
NotRun == [raised |-> "none", first |-> Absent, errors |-> {"not run"}]

\* a worker that is between two stage executions
Idle == [busy |-> FALSE]

\* the number of agents
NumAgents == 2

Agents == 1..NumAgents

\* settings.AGENTS_HEALTHCHECKS_SAVED
ChecksSaved == 1

\* the most runs of agents_healthchecks that are followed
MaxRuns == 2

\* the function object bound to a module attribute
Function == [kind |-> "function", value |-> FALSE]

\* a bool bound to a module attribute
Bool(b) == [kind |-> "bool", value |-> b]

\* is_healthy has not been called
NotCalled ==
    [ran |-> FALSE, outcomes |-> <<>>, raised |-> "none", healthy |-> FALSE,
     attempts |-> 0]

\* no health check has run: every agent's flag as created, the name
\* plantit.healthchecks.is_healthy bound to the function, the Redis lists
\* healthchecks/<agent> empty
NoChecks ==
    [flag |-> [a \in Agents |-> FALSE], attr |-> Function,
     checks |-> [a \in Agents |-> <<>>], runs |-> 0, call |-> NotCalled]

\* nothing has been composed: the task's inputs_detected and
\* job_requested_walltime unset, no event pushed, the workflow's parameters
\* as the user declared them, nothing returned
NotComposed ==
    [inputs_detected |-> -1, job_requested_walltime |-> Nil, events |-> 0,
     declared |-> TRUE, parameters |-> <<"P">>, args |-> <<>>,
     lines |-> <<>>, calls |-> 0]

\* a triggered task registered at time 1 for data last modified then; no
\* run yet
NotTriggered ==
    [modified |-> 1, data |-> 1, created |-> 0, enqueued |-> 0, runs |-> 0]

\* the scheduler has not been asked about the job
NotQueried ==
    [sacct |-> Nil, log |-> [exists |-> FALSE, lines |-> <<>>],
     result |-> [raised |-> "none", status |-> "not run"]]

(* ------------------------------- Init ---------------------------------- *)

\* create_task, then the chain prep | share | submit | poll with countdown 5
InitPipeline ==
    /\ task = [status |-> CREATED, job_status |-> Nil, job_id |-> Nil,
               updated |-> 0, completed |-> NoTime, due_time |-> 0 + TimeLimit,
               results_retrieved |-> FALSE, transferred |-> FALSE,
               results_transferred |-> 0, cleaned_up |-> FALSE]
    /\ workflow \in [valid : BOOLEAN, admin : BOOLEAN, input : Inputs]
    /\ queue = One(Msg("prep_environment", Guid, InitialCountdown,
                       <<"share_data", "submit_jobs", "poll_jobs">>))
    /\ cache = [present |-> FALSE, files |-> {}]
    /\ now = 0
    /\ scheduled = [s \in Counted |-> 0]
    /\ executed = [s \in Counted |-> 0]
    /\ seen = {}
    /\ swept = FALSE
    /\ last = BaseLast("create", Guid)
    /\ deleted = FALSE
    /\ flight = [w \in 1..Workers |-> Idle]
    /\ lock = [held |-> FALSE, since |-> 0, owner |-> 0]
    /\ periodic = [e \in 1..Executions |-> "idle"]

\* the pipeline of a task whose workflow configuration was accepted and
\* reads its input from the owner's home
Init ==
    /\ InitPipeline
    /\ triggered = NotTriggered
    /\ composer = NotComposed
    /\ health = NoChecks
    /\ jobqueue = NotQueried
    /\ workflow.input = PrivateInput
    /\ validated = [config |-> ValidConfig, result |-> NotRun]

(* --------------------------- prep_environment -------------------------- *)

\* the SSH session opened before the options are checked
PrepCallsBeforeParse(exc) ==
    IF exc = "mkdir" THEN {"mkdir"} ELSE {"mkdir", "upload"}

\* the remote commands prep_environment has issued when it ends: none when
\* the options do not parse, mkdir when mkdir raises, else mkdir and upload
PrepCalls(exc) ==
    IF ~workflow.valid THEN {}
    ELSE IF exc = "mkdir" THEN {"mkdir"}
    ELSE {"mkdir", "upload"}

\* the try block of prep_environment: parse the options, mkdir, upload,
\* set RUNNING; any exception goes to __handle_job_failure
PrepWork(m, exc) ==
    LET l == BaseLast(m.stage, m.guid)
        calls == PrepCalls(exc)
    IN  IF ~workflow.valid \/ exc # "none"
        THEN Plain(m, FailedTask(task), FailureMsgs,
                   [l EXCEPT !.exc = IF ~workflow.valid THEN "parse" ELSE exc,
                             !.proc = "failure", !.halted = TRUE,
                             !.remote = calls, !.message = "prep_failed"])
        ELSE Plain(m, [task EXCEPT !.status = RUNNING],
                   Callback(m, Guid, FALSE),
                   [l EXCEPT !.remote = calls, !.ret = Guid,
                             !.message = "prepared"])

PrepEnvironment ==
    \E m \in BagToSet(queue) :
        /\ Deliverable(m, "prep_environment")
        /\ IF deleted THEN AbortNotFound(m)
           ELSE IF IsCanceled(task) THEN AbortCanceled(m)
           ELSE \E exc \in {"none", "mkdir", "upload"} : PrepWork(m, exc)

(* ------------------------------ share_data ----------------------------- *)

\* the paths share_data asks write permission for: the output path, and the
\* input path unless it contains SharedDir or equals the output path
SharePaths ==
    {OutputPath} \cup
        IF /\ workflow.input # Nil
           /\ ~ContainsSharedDir(workflow.input)
           /\ workflow.input # OutputPath
        THEN {workflow.input}
        ELSE {}

\* share_data after its guards: nothing for the service account, else
\* share_many with SharePaths; any exception goes to __handle_job_failure
ShareWork(m, raises) ==
    LET l == [BaseLast(m.stage, m.guid) EXCEPT
                  !.paths = IF workflow.admin THEN {} ELSE SharePaths]
    IN  IF workflow.admin
        THEN Plain(m, task, Callback(m, Guid, FALSE), [l EXCEPT !.ret = Guid])
        ELSE IF raises
        THEN Plain(m, FailedTask(task), FailureMsgs,
                   [l EXCEPT !.exc = "share", !.proc = "failure",
                             !.halted = TRUE, !.remote = {"share_many"},
                             !.message = "share_failed"])
        ELSE Plain(m, task, Callback(m, Guid, FALSE),
                   [l EXCEPT !.remote = {"share_many"}, !.ret = Guid])

ShareData ==
    \E m \in BagToSet(queue) :
        /\ Deliverable(m, "share_data")
        /\ IF m.guid = Nil THEN AbortNil(m)
           ELSE IF deleted THEN AbortNotFound(m)
           ELSE IF IsCanceled(task) THEN AbortCanceled(m)
           ELSE \E raises \in BOOLEAN : ShareWork(m, raises)

(* ------------------------------ submit_jobs ---------------------------- *)

\* the remote commands submit_jobs has issued when it ends: none when the
\* options do not parse
SubmitCalls(exc) ==
    IF ~workflow.valid \/ exc = "parse" THEN {} ELSE {"submit"}

\* the identifiers the scheduler returns for the inbound transfer job and
\* for the user workflow job
PullId == "j1"

JobId == "j2"

\* a job handed to the scheduler: its identifier and the identifier passed
\* along for it to wait on (pull_id=..., job_id=...), Nil for none
Submission(id, after) == [id |-> id, after |-> after]

\* the outbound transfer submitted first, before the job it waits on exists
SubmittedPushFirst(exc) ==
    LET pull == IF workflow.input # Nil
                THEN <<Submission(PullId, Nil)>> ELSE <<>>
        pid  == IF workflow.input # Nil THEN PullId ELSE Nil
    IN  IF ~workflow.valid \/ exc \in {"parse", "pull"} THEN <<>>
        ELSE IF exc = "job" THEN pull \o <<Submission(PushId, Nil)>>
        ELSE pull \o <<Submission(PushId, Nil), Submission(JobId, pid)>>

\* the jobs submit_jobs has handed to the scheduler, in order, when the step
\* exc raises: submit_pull_to_scheduler only with an input, then
\* submit_job_to_scheduler with pull_id, then submit_push_to_scheduler with
\* job_id
Submitted(exc) ==
    LET pull == IF workflow.input # Nil
                THEN <<Submission(PullId, Nil)>> ELSE <<>>
        pid  == IF workflow.input # Nil THEN PullId ELSE Nil
    IN  IF ~workflow.valid \/ exc \in {"parse", "pull"} THEN <<>>
        ELSE IF exc = "job" THEN pull
        ELSE IF exc = "push" THEN pull \o <<Submission(JobId, pid)>>
        ELSE pull \o <<Submission(JobId, pid), Submission(PushId, JobId)>>

\* the steps of submit_jobs that can raise: the parse of the options and each
\* submission, the inbound one only when the workflow declares an input
SubmitExceptions ==
    {"none", "parse", "job", "push"} \cup
        IF workflow.input # Nil THEN {"pull"} ELSE {}

\* the try block of submit_jobs: parse the options again (their check looks
\* the image up, so it can fail here after it passed in prep_environment),
\* submit the jobs, record the job id
SubmitWork(m, exc) ==
    LET l == [BaseLast(m.stage, m.guid) EXCEPT !.jobs = Submitted(exc)]
    IN  IF ~workflow.valid \/ exc # "none"
        THEN Plain(m, FailedTask(task), FailureMsgs,
                   [l EXCEPT !.exc = IF ~workflow.valid THEN "parse" ELSE exc,
                             !.proc = "failure", !.halted = TRUE,
                             !.remote = SubmitCalls(exc),
                             !.message = "submit_failed"])
        ELSE Plain(m, [task EXCEPT !.job_id = PushId, !.updated = now],
                   Callback(m, Guid, FALSE),
                   [l EXCEPT !.remote = {"submit"}, !.ret = Guid,
                             !.message = "scheduled"])

SubmitJobs ==
    \E m \in BagToSet(queue) :
        /\ Deliverable(m, "submit_jobs")
        /\ IF m.guid = Nil THEN AbortNil(m)
           ELSE IF deleted THEN AbortNotFound(m)
           ELSE IF IsCanceled(task) THEN AbortCanceled(m)
           ELSE \E exc \in SubmitExceptions : SubmitWork(m, exc)

(* ------------------------------- poll_jobs ----------------------------- *)

\* the re-poll applied without its countdown
RepollMsgNoDelay == Msg("poll_jobs", Guid, now, <<>>)

\* "poll_jobs.s(guid).apply_async(countdown=refresh_delay)"
RepollMsg == Msg("poll_jobs", Guid, now + RefreshDelay, <<>>)

\* "task.job_status == 'COMPLETED' or task.job_status == 'COMPLETING'"
LooksCompleted(job_status) ==
    job_status = "COMPLETED" \/ job_status = "COMPLETING"

\* the due-time comparison reversed
PastDueReversed(t) == now < t.due_time

\* "if now > task.due_time"
PastDue(t) == now > t.due_time

\* the bucket a found scheduler status falls in
Bucket(job_status) ==
    IF job_status \in SLURM_FAILURE_STATES THEN "failure"
    ELSE IF job_status \in SLURM_CANCELLED_STATES THEN "cancelled"
    ELSE IF job_status \in SLURM_TIMEOUT_STATES THEN "timeout"
    ELSE IF job_status \in SLURM_SUCCESS_STATES THEN "success"
    ELSE "none"

\* the timeout bucket folded into the failure bucket
PolledStatusTimeoutFails(t, job_status) ==
    IF Bucket(job_status) \in {"failure", "timeout"} THEN FAILURE
    ELSE IF Bucket(job_status) = "cancelled" THEN CANCELED
    ELSE t.status

\* the status poll_jobs assigns for a found scheduler status
PolledStatus(t, job_status) ==
    IF Bucket(job_status) = "failure" THEN FAILURE
    ELSE IF Bucket(job_status) = "cancelled" THEN CANCELED
    ELSE IF Bucket(job_status) = "timeout" THEN TIMEOUT
    ELSE t.status

\* the scheduler does not find the job: job_status is None
PollNotFound(m) ==
    LET l  == [BaseLast(m.stage, m.guid) EXCEPT
                   !.sched = Nil, !.remote = {"status_query"}, !.ret = Guid]
        t1 == [task EXCEPT !.updated = now, !.job_status = Nil]
    IN  /\ IF ~LooksCompleted(t1.job_status)
           THEN Step(m, t1, One(RepollMsg) (+) Callback(m, Guid, FALSE),
                     [l EXCEPT !.message = "not_found_retry"])
           ELSE Step(m, SucceededTask(t1),
                     SuccessMsgs (+) Callback(m, Guid, FALSE),
                     [l EXCEPT !.proc = "success",
                               !.message = "unknown_status"])
        /\ UNCHANGED <<cache, seen>>

\* the scheduler finds the job with the raw status job_status
PollFound(m, job_status, cancelRaises) ==
    LET l  == [BaseLast(m.stage, m.guid) EXCEPT
                   !.sched = job_status, !.remote = {"status_query"}]
        t1 == [task EXCEPT !.status = PolledStatus(task, job_status),
                           !.job_status = job_status, !.updated = now]
    IN  /\ IF Bucket(job_status) # "none"
           THEN Step(m, SucceededTask(t1),
                     SuccessMsgs (+) Callback(m, Guid, FALSE),
                     [l EXCEPT !.proc = "success", !.ret = Guid,
                               !.message = "ended"])
           ELSE IF PastDue(t1)
           THEN IF cancelRaises
                THEN Step(m, FailedTask(t1), FailureMsgs,
                          [l EXCEPT !.exc = "cancel", !.proc = "failure",
                                    !.halted = TRUE,
                                    !.remote = {"status_query", "cancel_task"},
                                    !.message = "poll_failed"])
                ELSE Step(m, FailedTask(t1),
                          FailureMsgs (+) Callback(m, Nil, FALSE),
                          [l EXCEPT !.proc = "failure",
                                    !.remote = {"status_query", "cancel_task"},
                                    !.message = "past_due"])
           ELSE Step(m, t1, One(RepollMsg) (+) Callback(m, Nil, FALSE),
                     [l EXCEPT !.message = "refreshed"])
        /\ seen' = IF Bucket(job_status) # "none"
                   THEN seen \cup {Bucket(job_status)} ELSE seen
        /\ UNCHANGED cache

\* cancel_task(task) runs squeue and scancel over SSH: it returns or it raises
CancelTaskRaises == BOOLEAN

\* get_job_status_and_walltime raises
PollRaises(m) ==
    Plain(m, FailedTask(task), FailureMsgs,
          [BaseLast(m.stage, m.guid) EXCEPT
               !.sched = "exception", !.exc = "query", !.proc = "failure",
               !.halted = TRUE, !.remote = {"status_query"},
               !.message = "poll_failed"])

PollJobs ==
    \E m \in BagToSet(queue) :
        /\ Deliverable(m, "poll_jobs")
        /\ IF m.guid = Nil THEN AbortNil(m)
           ELSE IF deleted THEN AbortNotFound(m)
           ELSE IF IsCanceled(task) THEN AbortCanceled(m)
           ELSE \/ PollRaises(m)
                \/ PollNotFound(m)
                \/ \E job_status \in RawStatuses :
                       \E cancelRaises \in
                              IF Bucket(job_status) = "none" /\ PastDue(task)
                              THEN CancelTaskRaises ELSE {FALSE} :
                           PollFound(m, job_status, cancelRaises)

(* ------------------------------ test_results --------------------------- *)

\* a test_results that fails the task when an expected file is missing
TestResultsWorkStrict(m, found) ==
    IF found = Outputs
    THEN /\ Step(m, [task EXCEPT !.results_retrieved = TRUE],
                 Callback(m, Guid, FALSE),
                 [BaseLast(m.stage, m.guid) EXCEPT
                      !.remote = {"list_result_files"}, !.ret = Guid,
                      !.expected = found, !.message = "found"])
         /\ cache' = [present |-> TRUE, files |-> found]
         /\ UNCHANGED seen
    ELSE Plain(m, FailedTask(task), FailureMsgs,
               [BaseLast(m.stage, m.guid) EXCEPT
                    !.proc = "failure", !.halted = TRUE,
                    !.remote = {"list_result_files"},
                    !.expected = found, !.message = "missing"])

\* list_result_files finds the files in found on the agent; the ones that
\* exist are cached, results_retrieved is set, the guid is passed on
TestResultsWork(m, found) ==
    /\ Step(m, [task EXCEPT !.results_retrieved = TRUE],
            Callback(m, Guid, FALSE),
            [BaseLast(m.stage, m.guid) EXCEPT
                 !.remote = {"list_result_files"}, !.ret = Guid,
                 !.expected = found,
                 !.message = IF found = Outputs THEN "found" ELSE "missing"])
    /\ cache' = [present |-> TRUE, files |-> found]
    /\ UNCHANGED seen

\* the except block of test_results
TestResultsRaises(m) ==
    Plain(m, FailedTask(task), FailureMsgs,
          [BaseLast(m.stage, m.guid) EXCEPT
               !.exc = "list_result_files", !.proc = "failure",
               !.halted = TRUE, !.remote = {"list_result_files"},
               !.message = "results_failed"])

TestResults ==
    \E m \in BagToSet(queue) :
        /\ Deliverable(m, "test_results")
        /\ IF m.guid = Nil THEN AbortNil(m)
           ELSE IF deleted THEN AbortNotFound(m)
           ELSE IF IsCanceled(task) THEN AbortCanceled(m)
           ELSE \/ TestResultsRaises(m)
                \/ \E found \in SUBSET Outputs : TestResultsWork(m, found)

(* ------------------------------- test_push ----------------------------- *)

\* "file['path'].rpartition('/')[2]"
Basename(file) == file.name

\* the comparison by equality instead of inclusion
TransferCompleteExact(expected, actual) == expected = actual

\* "set(expected).issubset(set(actual))"
TransferComplete(expected, actual) == expected \subseteq actual

\* the status test_push saves after comparing expected and actual
PushedStatus(t, expected, actual) ==
    IF ~TransferComplete(expected, actual) THEN FAILURE
    ELSE IF t.status # FAILURE THEN COMPLETED
    ELSE t.status

\* the storage client lists listing at the output path
TestPushWork(m, listing) ==
    LET actual   == {Basename(file) : file \in listing}
        expected == cache.files
    IN  Plain(m, [task EXCEPT !.updated = now, !.completed = now,
                              !.status = PushedStatus(task, expected, actual),
                              !.transferred = TRUE,
                              !.results_transferred = Cardinality(expected)],
              Callback(m, Guid, FALSE),
              [BaseLast(m.stage, m.guid) EXCEPT
                   !.remote = {"list_files"}, !.ret = Guid,
                   !.expected = expected, !.actual = actual,
                   !.message = IF TransferComplete(expected, actual)
                               THEN "transfer_completed"
                               ELSE "transfer_incomplete"])

\* the except block of test_push
TestPushRaises(m) ==
    Plain(m, FailedTask(task), FailureMsgs,
          [BaseLast(m.stage, m.guid) EXCEPT
               !.exc = "list_files", !.proc = "failure", !.halted = TRUE,
               !.remote = {"list_files"}, !.message = "push_failed"])

\* "except: Could not find task ...; return": the callbacks are left in place
TestPushNotFound(m) ==
    Plain(m, task, Callback(m, Nil, FALSE),
         [BaseLast(m.stage, m.guid) EXCEPT !.message = "not_found"])

TestPush ==
    \E m \in BagToSet(queue) :
        /\ Deliverable(m, "test_push")
        /\ IF m.guid = Nil THEN AbortNil(m)
           ELSE IF deleted THEN TestPushNotFound(m)
           ELSE IF IsCanceled(task) THEN AbortCanceled(m)
           ELSE \/ TestPushRaises(m)
                \/ /\ cache.present
                   /\ \E listing \in SUBSET ListedFiles : TestPushWork(m, listing)

(* ------------------------------ unshare_data --------------------------- *)

\* "Not revoking temporary data access ...; return guid": the rest of the
\* function is never reached
UnshareData ==
    \E m \in BagToSet(queue) :
        /\ Deliverable(m, "unshare_data")
        /\ IF m.guid = Nil THEN AbortNil(m)
           ELSE IF deleted THEN AbortNotFound(m)
           ELSE IF IsCanceled(task) THEN AbortCanceled(m)
           ELSE Plain(m, task, Callback(m, Guid, FALSE),
                      [BaseLast(m.stage, m.guid) EXCEPT
                           !.ret = Guid, !.message = "not_revoking"])

(* -------------------------------- tidy_up ------------------------------ *)

\* rm -rf of the remote working directory, then cleaned_up; an exception is
\* logged and nothing is saved.  tidy_up has no cancellation check.
TidyUpWork(m, raises) ==
    LET l == [BaseLast(m.stage, m.guid) EXCEPT !.remote = {"rm"}]
    IN  IF raises
        THEN Plain(m, task, EmptyBag,
                   [l EXCEPT !.exc = "rm", !.message = "cleanup_failed"])
        ELSE Plain(m, [task EXCEPT !.cleaned_up = TRUE], EmptyBag,
                   [l EXCEPT !.message = "cleaned_up"])

TidyUp ==
    \E m \in BagToSet(queue) :
        /\ Deliverable(m, "tidy_up")
        /\ IF m.guid = Nil
           THEN Plain(m, task, EmptyBag,
                      [BaseLast(m.stage, m.guid) EXCEPT !.message = "aborting"])
           ELSE IF deleted
           THEN Plain(m, task, EmptyBag,
                      [BaseLast(m.stage, m.guid) EXCEPT !.message = "not_found"])
           ELSE \E raises \in BOOLEAN : TidyUpWork(m, raises)

(* ------------------------------ find_stranded -------------------------- *)

\* find_stranded is a periodic job: it runs at most once per unit of time

\* "(now - task.updated).total_seconds() > (2 * period)"
PossiblyStranded(t) == now - t.updated > StrandedWarnFactor * RefreshDelay

\* the rescue threshold mistaken for the warning threshold
StrandedAtWarning(t) == now - t.updated > StrandedWarnFactor * RefreshDelay

\* "(now - task.updated).total_seconds() > (5 * period)"
Stranded(t) == now - t.updated > StrandedRescueFactor * RefreshDelay

\* the messages one sweep over the RUNNING tasks enqueues
RescueMsgs(t) ==
    IF ~deleted /\ t.status = RUNNING /\ Stranded(t) /\ t.job_id # Nil
    THEN One(Msg("poll_jobs", Guid, now, <<>>))
    ELSE EmptyBag

FindStranded ==
    LET enq == RescueMsgs(task)
    IN  /\ ~swept
        /\ swept' = TRUE
        /\ queue' = queue (+) enq
        /\ last' = [BaseLast("find_stranded", Guid) EXCEPT
                        !.enq = enq,
                        !.message =
                            IF deleted \/ task.status # RUNNING THEN "none"
                            ELSE IF Stranded(task)
                                 THEN IF task.job_id # Nil THEN "rescue"
                                      ELSE "no_job_id"
                            ELSE IF PossiblyStranded(task) THEN "warning"
                            ELSE "none"]
        /\ UNCHANGED <<task, workflow, cache, now, scheduled, executed, seen>>
        /\ UNCHANGED aux

(* --------------------------- the environment --------------------------- *)

\* cancel(taskGuid): the task is marked CANCELED out-of-band, at any point
\* before it has reached a terminal state
Cancel ==
    /\ ~deleted
    /\ task.status \notin Terminal
    /\ task' = [task EXCEPT !.status = CANCELED]
    /\ last' = [BaseLast("cancel", Guid) EXCEPT !.changed = {"status"}]
    /\ UNCHANGED <<workflow, queue, cache, now, scheduled, executed, seen, swept>>
    /\ UNCHANGED aux

\* the Task row is deleted out-of-band
Delete ==
    /\ ~deleted
    /\ deleted' = TRUE
    /\ last' = BaseLast("delete", Guid)
    /\ UNCHANGED <<task, workflow, queue, cache, now, scheduled, executed, seen,
                   swept, flight, lock, periodic, validated, jobqueue, health,
                   composer, triggered>>

\* a message is waiting for a worker
Pending == \E m \in BagToSet(queue) : m.eta <= now

\* time passes; the workers take a message as soon as its eta has come
Tick ==
    /\ ~Pending
    /\ now < MaxTime
    /\ now' = now + 1
    /\ swept' = FALSE
    /\ last' = BaseLast("tick", Guid)
    /\ UNCHANGED <<task, workflow, queue, cache, scheduled, executed, seen>>
    /\ UNCHANGED aux

\* the length of a worker outage: long enough for find_stranded to see the
\* task as stranded
OutageLength == StrandedRescueFactor * RefreshDelay + 1

\* the workers are down for a while: time passes with messages waiting
Outage ==
    /\ Pending
    /\ now + OutageLength <= MaxTime
    /\ now' = now + OutageLength
    /\ swept' = FALSE
    /\ last' = BaseLast("outage", Guid)
    /\ UNCHANGED <<task, workflow, queue, cache, scheduled, executed, seen>>
    /\ UNCHANGED aux

Next ==
    \/ PrepEnvironment
    \/ ShareData
    \/ SubmitJobs
    \/ PollJobs
    \/ TestResults
    \/ TestPush
    \/ UnshareData
    \/ TidyUp
    \/ FindStranded
    \/ Cancel
    \/ Delete
    \/ Tick
    \/ Outage

Spec == Init /\ [][Next]_vars

(* ------------------- stage executions that take time ------------------- *)

\* A stage handler loads the task (Task.objects.get), checks it, works on the
\* copy it loaded and writes that copy back with task.save(), which writes
\* every field.  Here the load and the save are two steps, and each of the
\* Workers worker processes runs one stage execution at a time.

\* an outcome of a stage's work: the record it saves (or saves = FALSE), the
\* messages it enqueues, the Redis entry it leaves and what it logs
Result(t2, saves, enq, entry, message) ==
    [task |-> t2, saves |-> saves, enq |-> enq, cache |-> entry,
     message |-> message]

\* the except block of a stage, on the copy t
Failed(t, message) == Result(FailedTask(t), TRUE, FailureMsgs, cache, message)

\* poll_jobs on the copy t, the scheduler answering job_status
Polled(m, t, job_status) ==
    LET t0 == [t EXCEPT !.updated = now, !.job_status = Nil]
        t1 == [t EXCEPT !.status = PolledStatus(t, job_status),
                        !.job_status = job_status, !.updated = now]
    IN  IF job_status = Nil
        THEN IF ~LooksCompleted(t0.job_status)
             THEN Result(t0, TRUE, One(RepollMsg), cache, "not_found_retry")
             ELSE Result(SucceededTask(t0), TRUE, SuccessMsgs, cache,
                         "unknown_status")
        ELSE IF Bucket(job_status) # "none"
        THEN Result(SucceededTask(t1), TRUE, SuccessMsgs, cache, "ended")
        ELSE IF PastDue(t1)
        THEN Result(FailedTask(t1), TRUE, FailureMsgs, cache, "past_due")
        ELSE Result(t1, TRUE, One(RepollMsg), cache, "refreshed")

\* the outcomes of the stage of message m on the copy t of the task
Results(m, t) ==
    LET next == Callback(m, Guid, FALSE)
    IN  CASE m.stage = "prep_environment" ->
                 {Failed(t, "prep_failed")} \cup
                 IF workflow.valid
                 THEN {Result([t EXCEPT !.status = RUNNING], TRUE, next, cache,
                              "prepared")}
                 ELSE {}
          [] m.stage = "share_data" ->
                 {Result(t, FALSE, next, cache, "shared")} \cup
                 IF workflow.admin THEN {} ELSE {Failed(t, "share_failed")}
          [] m.stage = "submit_jobs" ->
                 {Failed(t, "submit_failed")} \cup
                 IF workflow.valid
                 THEN {Result([t EXCEPT !.job_id = PushId, !.updated = now],
                              TRUE, next, cache, "scheduled")}
                 ELSE {}
          [] m.stage = "poll_jobs" ->
                 {Failed(t, "poll_failed")} \cup
                 {Polled(m, t, job_status) : job_status \in RawStatuses \cup {Nil}}
          [] m.stage = "test_results" ->
                 {Failed(t, "results_failed")} \cup
                 {Result([t EXCEPT !.results_retrieved = TRUE], TRUE, next,
                         [present |-> TRUE, files |-> found], "found") :
                      found \in SUBSET Outputs}
          [] m.stage = "test_push" ->
                 {Failed(t, "push_failed")} \cup
                 IF cache.present
                 THEN {Result([t EXCEPT
                                  !.updated = now, !.completed = now,
                                  !.status = PushedStatus(t, cache.files,
                                      {Basename(file) : file \in listing}),
                                  !.transferred = TRUE,
                                  !.results_transferred =
                                      Cardinality(cache.files)],
                              TRUE, next, cache, "transfer_tested") :
                           listing \in SUBSET ListedFiles}
                 ELSE {}
          [] m.stage = "unshare_data" ->
                 {Result(t, FALSE, next, cache, "not_revoking")}
          [] m.stage = "tidy_up" ->
                 {Result(t, FALSE, EmptyBag, cache, "cleanup_failed"),
                  Result([t EXCEPT !.cleaned_up = TRUE], TRUE, EmptyBag, cache,
                         "cleaned_up")}

\* the checks at the top of a stage make it return at once
Aborts(m) ==
    \/ m.guid = Nil
    \/ deleted
    \/ m.stage # "tidy_up" /\ IsCanceled(task)

\* what a stage logs when it loads the task
Loaded(m) ==
    IF m.guid = Nil /\ m.stage # "prep_environment" THEN "aborting"
    ELSE IF deleted \/ m.guid = Nil THEN "not_found"
    ELSE IF m.stage # "tidy_up" /\ IsCanceled(task) THEN "cancelled"
    ELSE "loaded"

LoadMessages == {"aborting", "not_found", "cancelled", "loaded"}

\* worker w takes a message, loads the task and makes the stage's checks
Load(w) ==
    \E m \in BagToSet(queue) :
        LET enq == IF m.stage = "test_push" /\ Loaded(m) = "not_found"
                   THEN Callback(m, Nil, FALSE) ELSE EmptyBag
        IN  /\ ~flight[w].busy
            /\ m.eta <= now
            /\ queue' = (queue (-) One(m)) (+) enq
            /\ flight' = IF Aborts(m) THEN flight
                         ELSE [flight EXCEPT
                                   ![w] = [busy |-> TRUE, m |-> m, snap |-> task]]
            /\ executed' = IF m.stage \in Counted /\ m.guid # Nil
                           THEN [executed EXCEPT ![m.stage] = @ + 1]
                           ELSE executed
            /\ scheduled' = [s \in Counted |-> scheduled[s] + Count(enq, s)]
            /\ last' = [BaseLast(m.stage, m.guid) EXCEPT
                            !.enq = enq, !.message = Loaded(m),
                            !.halted = Aborts(m) /\ enq = EmptyBag]
            /\ UNCHANGED <<task, workflow, cache, now, seen, swept, deleted,
                           lock, periodic, validated, jobqueue, health,
                           composer, triggered>>

\* worker w finishes the stage it is in: the work is done on the copy it
\* loaded, and task.save() writes the whole copy over the row
Finish(w) ==
    /\ flight[w].busy
    /\ \E r \in Results(flight[w].m, flight[w].snap) :
           LET t2 == IF r.saves THEN r.task ELSE task
           IN  /\ task' = t2
               /\ queue' = queue (+) r.enq
               /\ cache' = r.cache
               /\ scheduled' =
                      [s \in Counted |-> scheduled[s] + Count(r.enq, s)]
               /\ last' = [BaseLast(flight[w].m.stage, flight[w].m.guid) EXCEPT
                               !.enq = r.enq, !.changed = Changed(task, t2),
                               !.message = r.message]
    /\ flight' = [flight EXCEPT ![w] = Idle]
    /\ UNCHANGED <<workflow, now, executed, seen, swept, deleted, lock, periodic,
                   validated, jobqueue, health, composer, triggered>>

NextFlight ==
    \/ \E w \in 1..Workers : Load(w)
    \/ \E w \in 1..Workers : Finish(w)
    \/ Cancel
    \/ Tick

SpecFlight == Init /\ [][NextFlight]_vars

(* ------------------------- the single-flight lock ---------------------- *)

\* the cache entry has outlived its timeout of LOCK_EXPIRE seconds
LockExpired ==
    lock.held /\ (now - lock.since) * LockTickSeconds >= LOCK_EXPIRE

\* __acquire_lock: cache.add stores the key unless a live entry exists; the
\* periodic job enters its body on success and returns at once otherwise.
\* The stored value is True for every execution: owner is a history field
\* that remembers which execution stored the entry, and no action reads it
AcquireLock(e) ==
    /\ periodic[e] # "body"
    /\ IF ~lock.held \/ LockExpired
       THEN /\ lock' = [held |-> TRUE, since |-> now, owner |-> e]
            /\ periodic' = [periodic EXCEPT ![e] = "body"]
       ELSE /\ periodic' = [periodic EXCEPT ![e] = "aborted"]
            /\ UNCHANGED lock
    /\ UNCHANGED <<task, workflow, queue, cache, now, scheduled, executed, seen,
                   swept, last, deleted, flight, validated, jobqueue, health,
                   composer, triggered>>

\* the ways an execution leaves its body: the end of the try block, a return
\* inside it (or the except branch that returns), an exception
ExitPaths == {"returned", "returned_early", "raised"}

\* a finally clause that is skipped by a return inside the body
ReleaseLockAtEndOnly(e) ==
    /\ periodic[e] = "body"
    /\ \E path \in ExitPaths :
           /\ lock' = IF path = "returned"
                      THEN [held |-> FALSE, since |-> 0, owner |-> 0]
                      ELSE lock
           /\ periodic' = [periodic EXCEPT ![e] = path]
    /\ UNCHANGED <<task, workflow, queue, cache, now, scheduled, executed, seen,
                   swept, last, deleted, flight, validated, jobqueue, health,
                   composer, triggered>>

\* __release_lock in the finally clause (and in the except branch that
\* returns): on every way out cache.delete removes the key, whichever
\* execution stored it
ReleaseLock(e) ==
    /\ periodic[e] = "body"
    /\ \E path \in ExitPaths :
           /\ lock' = [held |-> FALSE, since |-> 0, owner |-> 0]
           /\ periodic' = [periodic EXCEPT ![e] = path]
    /\ UNCHANGED <<task, workflow, queue, cache, now, scheduled, executed, seen,
                   swept, last, deleted, flight, validated, jobqueue, health,
                   composer, triggered>>

\* the worker process running the body is killed: no finally clause runs and
\* the cache entry stays until its timeout
Die(e) ==
    /\ periodic[e] = "body"
    /\ periodic' = [periodic EXCEPT ![e] = "died"]
    /\ UNCHANGED <<task, workflow, queue, cache, now, scheduled, executed, seen,
                   swept, last, deleted, flight, lock, validated, jobqueue,
                   health, composer, triggered>>

\* LockTickSeconds seconds pass while the executions are where they are
LockTick ==
    /\ now < MaxTime
    /\ now' = now + 1
    /\ UNCHANGED <<task, workflow, queue, cache, scheduled, executed, seen,
                   swept, last, deleted, flight, lock, periodic, validated,
                   jobqueue, health, composer, triggered>>

NextLock ==
    \/ \E e \in 1..Executions : AcquireLock(e)
    \/ \E e \in 1..Executions : ReleaseLock(e)
    \/ \E e \in 1..Executions : Die(e)
    \/ LockTick

SpecLock == Init /\ [][NextLock]_vars

(* ------------------- the stages that read the input -------------------- *)

\* the pipeline of a task whose workflow declares any of the inputs, or none
InitInput ==
    /\ InitPipeline
    /\ triggered = NotTriggered
    /\ composer = NotComposed
    /\ health = NoChecks
    /\ jobqueue = NotQueried
    /\ validated = [config |-> ValidConfig, result |-> NotRun]

\* the chain up to the submission of the jobs
NextInput ==
    \/ PrepEnvironment
    \/ ShareData
    \/ SubmitJobs
    \/ Tick

SpecInput == InitInput /\ [][NextInput]_vars

(* -------------------- get_jobqueue_task_job_status --------------------- *)

\* the longest scheduler log
MaxLogLines == 2

\* the words get_jobqueue_task_job_status looks for in a line of the log
LogWords ==
    {"CANCELLED", "CANCELED", "TIMEOUT", "FAILED", "FAILURE", "NODE_FAIL",
     "SUCCESS", "COMPLETED"}

\* a line of the scheduler log, as the set of the words it contains
LogLines == {line \in SUBSET LogWords : Cardinality(line) <= 2}

\* the scheduler log file: absent, or its lines
Logs ==
    {[exists |-> FALSE, lines |-> <<>>]} \cup
        [exists : {TRUE},
         lines : UNION {[1..n -> LogLines] : n \in 0..MaxLogLines}]

\* column 6 of the job's line in the output of sacct; Nil when no line of
\* the output names the job
SacctStates == {Nil, "RUNNING", "COMPLETED", "CANCELLED+"}

\* "line.split()[5].replace('+', '')"
StripPlus(state) == IF state = "CANCELLED+" THEN "CANCELLED" ELSE state

\* "for line in log_file.readlines()": a cancellation or timeout line sets
\* the status and the loop goes on, a failure or success line sets it and
\* ends the loop
RECURSIVE ScanLog(_, _)
ScanLog(lines, status) ==
    IF lines = <<>> THEN status
    ELSE LET line == Head(lines)
         IN  IF "CANCELLED" \in line \/ "CANCELED" \in line
             THEN ScanLog(Tail(lines), "CANCELED")
             ELSE IF "TIMEOUT" \in line
             THEN ScanLog(Tail(lines), "TIMEOUT")
             ELSE IF "FAILED" \in line \/ "FAILURE" \in line
                        \/ "NODE_FAIL" \in line
             THEN "FAILED"
             ELSE IF "SUCCESS" \in line \/ "COMPLETED" \in line
             THEN "SUCCESS"
             ELSE ScanLog(Tail(lines), status)

\* get_jobqueue_task_job_status: next(...) over the sacct output raises
\* StopIteration when no line names the job; otherwise the sacct status,
\* replaced by what the log says when the log file exists
get_jobqueue_task_job_status(sacct, log) ==
    IF sacct = Nil THEN [raised |-> "StopIteration", status |-> Nil]
    ELSE IF ~log.exists THEN [raised |-> "none", status |-> StripPlus(sacct)]
    ELSE [raised |-> "none", status |-> ScanLog(log.lines, StripPlus(sacct))]

\* a job was submitted; the scheduler will answer with any sacct output and
\* any log
InitJobqueue ==
    /\ InitPipeline
    /\ triggered = NotTriggered
    /\ composer = NotComposed
    /\ health = NoChecks
    /\ workflow = [valid |-> TRUE, admin |-> FALSE, input |-> PrivateInput]
    /\ validated = [config |-> ValidConfig, result |-> NotRun]
    /\ jobqueue \in [sacct : SacctStates, log : Logs,
                     result : {NotQueried.result}]

\* the status of the job is asked for
QueryJobStatus ==
    /\ jobqueue.result = NotQueried.result
    /\ jobqueue' = [jobqueue EXCEPT !.result =
                        get_jobqueue_task_job_status(jobqueue.sacct,
                                                     jobqueue.log)]
    /\ UNCHANGED <<task, workflow, queue, cache, now, scheduled, executed, seen,
                   swept, last, deleted, flight, lock, periodic, validated,
                   health, composer, triggered>>

NextJobqueue == QueryJobStatus

SpecJobqueue == InitJobqueue /\ [][NextJobqueue]_vars

(* ---------------------------- health checks ---------------------------- *)

\* "stop=stop_after_attempt(3)"
MaxAttempts == 3

\* what an attempt to reach the agent over SSH meets
Outcomes == {"ok", "ConnectionError", "SSHException"}

\* the exception types named in the retry decorator
Retryable == {"ConnectionError"}

\* the body of is_healthy: (True, output) when the command ran; every
\* exception ends in the bare except clause, which returns (False, output)
HealthAttempt(outcome) ==
    IF outcome = "ok" THEN [raised |-> "none", healthy |-> TRUE]
    ELSE [raised |-> "none", healthy |-> FALSE]

\* the retry decorator around the body: the body is run again while it
\* raises one of the Retryable exceptions and fewer than MaxAttempts
\* attempts were made; when the attempts are used up RetryError is raised
RECURSIVE Retry(_, _)
Retry(outcomes, attempt) ==
    LET r == HealthAttempt(outcomes[attempt])
    IN  IF r.raised \in Retryable
        THEN IF attempt < MaxAttempts
             THEN Retry(outcomes, attempt + 1)
             ELSE [ran |-> TRUE, outcomes |-> outcomes, raised |-> "RetryError",
                   healthy |-> FALSE, attempts |-> attempt]
        ELSE [ran |-> TRUE, outcomes |-> outcomes, raised |-> r.raised,
              healthy |-> r.healthy, attempts |-> attempt]

\* is_healthy(agent, auth)
is_healthy(outcomes) == Retry(outcomes, 1)

\* the agents exist, healthy or not
InitHealth ==
    /\ InitPipeline
    /\ triggered = NotTriggered
    /\ composer = NotComposed
    /\ workflow = [valid |-> TRUE, admin |-> FALSE, input |-> PrivateInput]
    /\ validated = [config |-> ValidConfig, result |-> NotRun]
    /\ jobqueue = NotQueried
    /\ health \in [flag : [Agents -> BOOLEAN], attr : {Function},
                   checks : {NoChecks.checks}, runs : {0},
                   call : {NotCalled}]

\* is_healthy is called while the agent answers the attempts with outcomes
CheckHealth ==
    \E outcomes \in [1..MaxAttempts -> Outcomes] :
        /\ health' = [health EXCEPT !.call = is_healthy(outcomes)]
        /\ UNCHANGED <<task, workflow, queue, cache, now, scheduled, executed,
                       seen, swept, last, deleted, flight, lock, periodic,
                       validated, jobqueue, composer, triggered>>

\* what is_healthy(agent) of plantit.healthchecks can return for the agents
\* in one run: for each, healthy or not
HealthResults == [Agents -> BOOLEAN]

\* the Redis list healthchecks/<agent> after "if length > checks_saved:
\* rpop" and lpush of the new check
Pushed(checks, healthy) ==
    LET kept == IF Len(checks) > ChecksSaved
                THEN SubSeq(checks, 1, Len(checks) - 1)
                ELSE checks
    IN  <<healthy>> \o kept

\* agents_healthchecks, holding its lock from start to end: for every agent
\* the result of is_healthy is bound to the name
\* plantit.healthchecks.is_healthy, the agent is saved as it was loaded, and
\* the check is pushed onto the agent's Redis list
AgentsHealthchecks ==
    /\ health.runs < MaxRuns
    /\ \E healthy \in HealthResults :
           health' = [health EXCEPT
                          !.attr = Bool(healthy[NumAgents]),
                          !.flag = [a \in Agents |-> health.flag[a]],
                          !.checks = [a \in Agents |->
                                         Pushed(health.checks[a], healthy[a])],
                          !.runs = health.runs + 1]
    /\ UNCHANGED <<task, workflow, queue, cache, now, scheduled, executed, seen,
                   swept, last, deleted, flight, lock, periodic, validated,
                   jobqueue, composer, triggered>>

NextHealth ==
    \/ CheckHealth
    \/ AgentsHealthchecks

SpecHealth == InitHealth /\ [][NextHealth]_vars

(* ----------------------------- job composer ---------------------------- *)

\* the most input files a workflow is given
MaxInputs == 2

\* the most calls of the composer that are followed
MaxCalls == 3

\* calculate_walltime: the requested walltime rounded up to the hour
Walltime == "01:00:00"

\* compose_jobqueue_task_resource_requests, for n inputs and the options'
\* jobqueue section jq (absent, without or with a walltime): what it leaves
\* in the task row and sends besides the directives it returns
ResourceRequests(c, n, jq) ==
    LET saved == [c EXCEPT !.inputs_detected = n]
        tail  == <<"#SBATCH -N", "#SBATCH --ntasks", "#SBATCH --mail-type",
                   "#SBATCH --mail-user", "#SBATCH --output", "#SBATCH --error">>
    IN  IF jq = "absent" THEN [saved EXCEPT !.lines = <<>>]
        ELSE IF jq = "walltime"
        THEN [saved EXCEPT !.events = c.events + 1,
                           !.job_requested_walltime = Walltime,
                           !.lines = <<"#SBATCH --time=" \o Walltime>> \o tail]
        ELSE [saved EXCEPT !.lines = tail]

\* compose_task_singularity_command on the list parameters: INDEX (with an
\* index) and WORKDIR are appended to the list it was handed, and one
\* SINGULARITYENV assignment per element goes into the command
compose_task_singularity_command(parameters, index) ==
    LET appended == parameters
                        \o (IF index # Nil THEN <<"INDEX">> ELSE <<>>)
                        \o <<"WORKDIR">>
    IN  [parameters |-> appended,
         cmd |-> [i \in 1..Len(appended) |-> "SINGULARITYENV_" \o appended[i]]]

\* compose_task_run_commands: with an input inputs_detected is saved and a
\* new list (the declared parameters + INPUT, OUTPUT, GPUS) is handed on;
\* without an input the list options['parameters'] itself is handed on when
\* the workflow declares parameters, else [] + [OUTPUT, GPUS]
RunCommands(c, kind) ==
    IF kind = "directory"
    THEN LET r == compose_task_singularity_command(
                      (IF c.declared THEN c.parameters ELSE <<>>)
                          \o <<"INPUT", "OUTPUT", "GPUS">>, Nil)
         IN  [c EXCEPT !.inputs_detected = 0, !.lines = r.cmd]
    ELSE IF c.declared
    THEN LET r == compose_task_singularity_command(c.parameters, Nil)
         IN  [c EXCEPT !.parameters = r.parameters, !.lines = r.cmd]
    ELSE LET r == compose_task_singularity_command(<<"OUTPUT", "GPUS">>, Nil)
         IN  [c EXCEPT !.lines = r.cmd]

\* a task whose workflow declares a parameter or none
InitCompose ==
    /\ InitPipeline
    /\ triggered = NotTriggered
    /\ workflow = [valid |-> TRUE, admin |-> FALSE, input |-> PrivateInput]
    /\ validated = [config |-> ValidConfig, result |-> NotRun]
    /\ jobqueue = NotQueried
    /\ health = NoChecks
    /\ composer \in {NotComposed,
                     [NotComposed EXCEPT !.declared = FALSE,
                                         !.parameters = <<>>]}

\* compose_task_run_script asks for the scheduler directives
ComposeResourceRequests ==
    /\ composer.calls < MaxCalls
    /\ \E n \in 0..MaxInputs, jq \in {"absent", "plain", "walltime"} :
           composer' = [ResourceRequests(composer, n, jq) EXCEPT
                            !.args = <<"requests", n, jq>>,
                            !.calls = composer.calls + 1]
    /\ UNCHANGED <<task, workflow, queue, cache, now, scheduled, executed, seen,
                   swept, last, deleted, flight, lock, periodic, validated,
                   jobqueue, health, triggered>>

\* compose_task_run_script asks for the workflow's commands
ComposeRunCommands ==
    /\ composer.calls < MaxCalls
    /\ \E kind \in {"none", "directory"} :
           composer' = [RunCommands(composer, kind) EXCEPT
                            !.args = <<"commands", 0, kind>>,
                            !.calls = composer.calls + 1]
    /\ UNCHANGED <<task, workflow, queue, cache, now, scheduled, executed, seen,
                   swept, last, deleted, flight, lock, periodic, validated,
                   jobqueue, health, triggered>>

NextCompose ==
    \/ ComposeResourceRequests
    \/ ComposeRunCommands

SpecCompose == InitCompose /\ [][NextCompose]_vars

(* ---------------------- create_and_submit_triggered -------------------- *)

\* the latest modification time of the watched data, in seconds
MaxStamp == 11

\* the most runs of create_and_submit_triggered that are followed
MaxTriggeredRuns == 3

\* "str(...).strip("0")" read back with int(): the decimal digits without
\* their trailing zeros (a positive number has no leading ones)
RECURSIVE StripZeros(_)
StripZeros(n) == IF n % 10 = 0 THEN StripZeros(n \div 10) ELSE n

\* the data store reports the modification time in milliseconds;
\* "datetime.fromtimestamp(int(str(client.stat(...)['date-modified'])
\* .strip("0")))"
ModifiedOf(data) == StripZeros(data * 1000)

\* a triggered task is registered when the data it watches were last
\* modified, at any time
InitTriggered ==
    /\ InitPipeline
    /\ workflow = [valid |-> TRUE, admin |-> FALSE, input |-> PrivateInput]
    /\ validated = [config |-> ValidConfig, result |-> NotRun]
    /\ jobqueue = NotQueried
    /\ health = NoChecks
    /\ composer = NotComposed
    /\ \E stamp \in 1..MaxStamp :
           triggered = [NotTriggered EXCEPT !.modified = stamp, !.data = stamp]

\* the watched data are modified
Touch ==
    /\ \E stamp \in (triggered.data + 1)..MaxStamp :
           triggered' = [triggered EXCEPT !.data = stamp]
    /\ UNCHANGED <<task, workflow, queue, cache, now, scheduled, executed, seen,
                   swept, last, deleted, flight, lock, periodic, validated,
                   jobqueue, health, composer>>

\* create_and_submit_triggered: return when "task.modified <= modified";
\* else store modified, create the immediate task and enqueue its chain
CreateAndSubmitTriggered ==
    /\ triggered.runs < MaxTriggeredRuns
    /\ LET modified == ModifiedOf(triggered.data)
       IN  IF triggered.modified <= modified
           THEN triggered' = [triggered EXCEPT !.runs = triggered.runs + 1]
           ELSE triggered' = [triggered EXCEPT
                                  !.modified = modified,
                                  !.created = triggered.created + 1,
                                  !.enqueued = triggered.enqueued + 1,
                                  !.runs = triggered.runs + 1]
    /\ UNCHANGED <<task, workflow, queue, cache, now, scheduled, executed, seen,
                   swept, last, deleted, flight, lock, periodic, validated,
                   jobqueue, health, composer>>

NextTriggered ==
    \/ Touch
    \/ CreateAndSubmitTriggered

SpecTriggered == InitTriggered /\ [][NextTriggered]_vars

(* ----------------------- parse_task_cli_options ------------------------ *)

\* "errors.append('Attribute \'image\' must not be a str')", appended when the
\* value is not a str
NotAStr(a) == "Attribute '" \o a \o "' must not be a str"

\* "errors.append('Attribute \'image\' must not be empty')"
Empty(a) == "Attribute '" \o a \o "' must not be empty"

\* the check of one of the attributes image and commands
AttributeErrors(config, a) ==
    IF config[a].kind # "str" THEN {NotAStr(a)}
    ELSE IF config[a].len = 0 THEN {Empty(a)}
    ELSE {}

\* "if not image_exists(...)": the image is looked up on Docker Hub
ImageErrors(config, hub) ==
    IF config.image.kind = "str" /\ config.image.len > 0 /\ ~hub
    THEN {"Image not found on Docker Hub"}
    ELSE {}

\* the checks of parse_task_cli_options on image, workdir (always the str
\* joined from the agent's directory and the guid) and commands, for a
\* configuration whose output section is complete: config['image'] and
\* config['commands'] raise KeyError when the key is absent; the keys name,
\* author and mount are not read; the result is (errors, options), with the
\* list of errors as its first component
parse_task_cli_options(config, hub) ==
    IF config.image = Absent \/ config.commands = Absent
    THEN [raised |-> "KeyError", first |-> Absent, errors |-> {}]
    ELSE LET errors == AttributeErrors(config, "image")
                           \cup ImageErrors(config, hub)
                           \cup AttributeErrors(config, "commands")
         IN  [raised |-> "none",
              first |-> Value("list", Cardinality(errors)),
              errors |-> errors]

\* a task is created for a workflow configuration
InitValidate ==
    /\ InitPipeline
    /\ triggered = NotTriggered
    /\ composer = NotComposed
    /\ health = NoChecks
    /\ jobqueue = NotQueried
    /\ workflow = [valid |-> TRUE, admin |-> FALSE, input |-> PrivateInput]
    /\ validated \in [config : Configs, result : {NotRun}]

\* the options of the configuration are parsed
Validate ==
    /\ validated.result = NotRun
    /\ \E hub \in BOOLEAN :
           validated' = [validated EXCEPT
                             !.result = parse_task_cli_options(validated.config, hub)]
    /\ UNCHANGED <<task, workflow, queue, cache, now, scheduled, executed, seen,
                   swept, last, deleted, flight, lock, periodic, jobqueue,
                   health, composer, triggered>>

NextValidate == Validate

SpecValidate == InitValidate /\ [][NextValidate]_vars

TypeOK ==
    /\ task.status \in TaskStatus
    /\ task.job_status \in RawStatuses \cup {Nil}
    /\ task.job_id \in {Nil, PushId}
    /\ task.updated \in 0..MaxTime
    /\ task.completed \in {NoTime} \cup 0..MaxTime
    /\ now \in 0..MaxTime
    /\ cache.files \subseteq Outputs
    /\ seen \subseteq {"failure", "cancelled", "timeout", "success"}
    /\ \A m \in BagToSet(queue) : m.stage \in Stages /\ m.guid \in {Guid, Nil}

(* ======================================================================= *)
(* The claims                                                              *)
(* ======================================================================= *)

\* the stage steps that loaded the task (they were given its guid)
StageRan ==
    last.op \in Stages /\ last.guid = Guid /\ last.message # "not_found"

\* the scheduler answer of the last poll named no terminal bucket: the job
\* was found with a status in no bucket, or it was not found
NoTerminalAnswer ==
    /\ last.op = "poll_jobs"
    /\ last.sched \in RawStatuses \cup {Nil}
    /\ Bucket(last.sched) = "none"

\* C1: once the status is COMPLETED, FAILURE, CANCELED or TIMEOUT, no stage
\* execution and no watchdog sweep changes it to a different status.
C1_TerminalIsFinal ==
    [][task.status \in Terminal => task'.status = task.status]_vars

\* C2: over the task's whole life UnshareData is scheduled exactly once and
\* TidyUp is scheduled exactly once: never more than once, and once the
\* pipeline of a task that was not cancelled has drained, each exactly once.
C2_CleanupScheduledOnce ==
    /\ scheduled["unshare_data"] <= 1
    /\ scheduled["tidy_up"] <= 1
    /\ (queue = EmptyBag /\ task.status # CANCELED)
           => (scheduled["unshare_data"] = 1 /\ scheduled["tidy_up"] = 1)

\* C3: with a scheduler that reports no terminal status (a status in no
\* bucket, or job not found), the first poll after due_time ends the loop:
\* the task is FAILURE and PollJobs is not re-enqueued.
C3_PollLoopEndsPastDue ==
    (NoTerminalAnswer /\ now > task.due_time)
        => (task.status = FAILURE /\ Count(last.enq, "poll_jobs") = 0)

C5_PastDueCancelsAndFails ==
    (NoTerminalAnswer /\ last.sched # Nil /\ now > task.due_time)
        => /\ "cancel_task" \in last.remote
           /\ last.proc = "failure"
           /\ task.status = FAILURE
           /\ last.message = "past_due"
           /\ Count(last.enq, "poll_jobs") = 0

\* C5 as amended: in that case PollJobs calls the scheduler cancel, the task
\* becomes FAILURE through the failure procedure (UnshareData and TidyUp
\* scheduled) and PollJobs is not re-enqueued; the message is the past-due
\* one when the cancel call returns and the poll-failure one when it raises.
C5_PastDueFails ==
    (NoTerminalAnswer /\ last.sched # Nil /\ now > task.due_time)
        => /\ "cancel_task" \in last.remote
           /\ last.proc = "failure"
           /\ task.status = FAILURE
           /\ task.completed = now
           /\ last.enq = FailureMsgs
           /\ last.message = IF last.exc = "cancel" THEN "poll_failed"
                             ELSE "past_due"

C5_Witness ==
    /\ NoTerminalAnswer
    /\ last.sched = "RUNNING"
    /\ now > task.due_time
    /\ last.message = "past_due"
    /\ task.status = FAILURE

\* C6: when the scheduler does not find the job and the task's last persisted
\* job_status is COMPLETED or COMPLETING, PollJobs does not re-poll: it runs
\* the success procedure.
C6_NotFoundAfterCompleting ==
    (last.op = "poll_jobs" /\ last.sched = Nil
         /\ last.pre_job_status \in {"COMPLETED", "COMPLETING"})
        => /\ last.proc = "success"
           /\ Count(last.enq, "poll_jobs") = 0

\* C7: when the scheduler does not find the job and the task's previous
\* job_status is nil, the status is unchanged, neither the success nor the
\* failure procedure runs, and exactly one PollJobs is enqueued, with the
\* refresh delay.
C7_NotFoundFirstPoll ==
    (last.op = "poll_jobs" /\ last.sched = Nil /\ last.pre_job_status = Nil)
        => /\ task.status = last.pre_status
           /\ last.changed \subseteq {"updated"}
           /\ BagToSet(last.enq) =
                  {Msg("poll_jobs", Guid, now + RefreshDelay, <<>>)}
           /\ BagCardinality(last.enq) = 1

C7_Witness ==
    /\ last.op = "poll_jobs"
    /\ last.sched = Nil
    /\ last.pre_job_status = Nil
    /\ task.status = RUNNING
    /\ Count(queue, "poll_jobs") = 1

\* C8: when PollJobs has observed a status of the cancelled bucket, the task
\* is CANCELED and, once the queue has drained, UnshareData and TidyUp have
\* both executed for the task.
C8_CancelledRunsCleanup ==
    ("cancelled" \in seen /\ queue = EmptyBag)
        => /\ task.status = CANCELED
           /\ executed["unshare_data"] >= 1
           /\ executed["tidy_up"] >= 1

C10_CanceledHaltsEveryStage ==
    (StageRan /\ last.pre_status = CANCELED)
        => /\ last.changed = {}
           /\ last.remote = {}
           /\ last.proc = "none"
           /\ last.enq = EmptyBag


\* C13: a stage that is given nil instead of a guid, or that cannot find the
\* task, halts the chain silently: it writes no field, does no remote work,
\* does not run the failure procedure and enqueues nothing, neither cleanup
\* nor the next stage of its chain.
C13_NotFoundHaltsChain ==
    (last.op \in Stages /\ (last.guid = Nil \/ last.message = "not_found"))
        => /\ last.changed = {}
           /\ last.remote = {}
           /\ last.proc = "none"
           /\ last.enq = EmptyBag

\* C14: when the work of PrepareEnvironment, ShareData, SubmitJobs or
\* PollJobs raises, the task is FAILURE with updated and completed stamped,
\* the rest of the chain is not run, and exactly UnshareData (at once) and
\* TidyUp (after the cleanup delay) are scheduled.
C14_ExceptionRunsFailureProcedure ==
    (last.op \in {"prep_environment", "share_data", "submit_jobs", "poll_jobs"}
         /\ last.exc # "none")
        => /\ task.status = FAILURE
           /\ task.updated = now
           /\ task.completed = now
           /\ last.halted
           /\ BagToSet(last.enq) =
                  {Msg("unshare_data", Guid, now, <<>>),
                   Msg("tidy_up", Guid, now + CleanupDelay, <<>>)}
           /\ BagCardinality(last.enq) = 2

C14_Witness ==
    /\ last.op = "submit_jobs"
    /\ last.exc = "push"
    /\ last.pre_status = RUNNING
    /\ task.status = FAILURE
    /\ Count(queue, "tidy_up") = 1

\* C15: job_id is written at most once: it changes only from unset, only in
\* a SubmitJobs that succeeded, and no later step writes another value.
C15_JobIdSetOnce ==
    [][task'.job_id # task.job_id
           => /\ task.job_id = Nil
              /\ task'.job_id = PushId
              /\ last'.op = "submit_jobs"
              /\ last'.exc = "none"]_vars

C15_Witness ==
    /\ task.job_id = PushId
    /\ last.op = "poll_jobs"
    /\ last.proc = "success"
    /\ scheduled["test_results"] = 2

\* C16: due_time is the creation time plus the workflow's time limit, and no
\* stage, poll iteration, procedure or watchdog sweep changes it.
C16_DueTimeFixed == task.due_time = 0 + TimeLimit

C16_Witness ==
    /\ last.op = "poll_jobs"
    /\ last.message = "past_due"
    /\ task.status = FAILURE
    /\ task.due_time = 0 + TimeLimit

\* C18: the status is COMPLETED only if PollJobs observed a status of the
\* success bucket for the job, and never for a job the scheduler reported as
\* failed, cancelled or timed out.
C18_CompletedOnlyAfterSuccess ==
    task.status = COMPLETED
        => /\ "success" \in seen
           /\ seen \cap {"failure", "cancelled", "timeout"} = {}

\* C19: for a task not owned by the service account whose data ShareData
\* shared (SubmitJobs ran after it), UnshareData calls the storage client's
\* unshare.
C19_UnshareRevokes ==
    (StageRan /\ last.op = "unshare_data" /\ last.pre_status # CANCELED
         /\ ~workflow.admin /\ task.job_id # Nil)
        => "unshare_many" \in last.remote


\* the last step was a stage finishing its work
Finished == last.op \in Stages /\ last.message \notin LoadMessages

\* C11: when the task was set to CANCELED while a stage was executing, after
\* its cancellation check, the status is still CANCELED once the stage has
\* persisted the task.
C11_CancelSurvivesStage ==
    (Finished /\ last.pre_status = CANCELED) => task.status = CANCELED

\* C12: for a task, at most one stage execution is in progress at any time.
C12_OneStageAtATime ==
    Cardinality({w \in 1..Workers : flight[w].busy}) <= 1

\* C17: the status becomes RUNNING only in PrepareEnvironment, and only when
\* validation, mkdir and upload have succeeded.
C17_RunningOnlyAfterPrep ==
    [][(task.status # RUNNING /\ task'.status = RUNNING)
           => /\ last'.op = "prep_environment"
              /\ last'.message = "prepared"
              /\ workflow.valid]_vars

\* C20: no two executions of the same periodic job are inside the
\* lock-protected body at the same time.
C20_PeriodicJobsNeverOverlap ==
    Cardinality({e \in 1..Executions : periodic[e] = "body"}) <= 1

\* C21: an execution that leaves its body by any path has released the lock;
\* an execution that fails to acquire the lock never was in the body and
\* leaves the lock as it is; and an attempt is refused only while a live
\* (unexpired) entry exists, so the lock of a dead holder can be taken once
\* the timeout has elapsed.
C21_LockReleasedOnEveryExit ==
    [][\A e \in 1..Executions :
          /\ (periodic[e] = "body" /\ periodic'[e] \in ExitPaths) => ~lock'.held
          /\ (periodic[e] # "aborted" /\ periodic'[e] = "aborted")
                 => /\ periodic[e] # "body"
                    /\ lock' = lock
                    /\ lock.held /\ ~LockExpired
          /\ (periodic[e] # "body" /\ periodic'[e] = "body")
                 => lock' = [held |-> TRUE, since |-> now, owner |-> e]]_vars

\* an execution is in the body under a lock it took after the timeout, while
\* another one has died in the body
C21_Witness ==
    /\ \E e \in 1..Executions : periodic[e] = "died"
    /\ \E e \in 1..Executions : periodic[e] = "body"
    /\ lock.held
    /\ lock.since * LockTickSeconds >= LOCK_EXPIRE

\* C22: a find_stranded sweep enqueues PollJobs for the task exactly when the
\* task is RUNNING, its updated stamp is more than 5 refresh periods old and
\* its job_id is set; past 5 periods without job_id it only logs an error,
\* between 2 and 5 periods only a warning; the sweep changes no task field.
C22_SweepRescuesOnlyStranded ==
    (last.op = "find_stranded" /\ ~deleted)
        => LET running == task.status = RUNNING
               age == now - task.updated
           IN  /\ last.enq = (IF running /\ age > StrandedRescueFactor * RefreshDelay
                                         /\ task.job_id # Nil
                              THEN One(Msg("poll_jobs", Guid, now, <<>>))
                              ELSE EmptyBag)
               /\ (running /\ age > StrandedRescueFactor * RefreshDelay
                           /\ task.job_id = Nil) => last.message = "no_job_id"
               /\ (running /\ age > StrandedWarnFactor * RefreshDelay
                           /\ age <= StrandedRescueFactor * RefreshDelay)
                      => last.message = "warning"
               /\ last.changed = {}
               /\ last.remote = {}

\* a sweep found the RUNNING task, with its job id, stale and enqueued a poll
C22_Witness ==
    /\ last.op = "find_stranded"
    /\ last.message = "rescue"
    /\ task.status = RUNNING
    /\ task.job_id = PushId
    /\ now - task.updated > StrandedRescueFactor * RefreshDelay
    /\ Count(queue, "poll_jobs") >= 1

\* C23: when the options of the workflow configuration do not parse,
\* PrepareEnvironment and SubmitJobs fail the task without having issued any
\* remote command (no SSH session, no mkdir, no upload, no job submission),
\* and an invalid configuration never gets past the parse in PrepareEnvironment.
C23_InvalidConfigFailsFast ==
    /\ (last.op \in {"prep_environment", "submit_jobs"} /\ last.exc = "parse")
           => /\ last.remote = {}
              /\ task.status = FAILURE
              /\ last.proc = "failure"
              /\ last.halted
    /\ (StageRan /\ last.op = "prep_environment" /\ last.pre_status # CANCELED
                 /\ ~workflow.valid)
           => last.exc = "parse"

\* PrepareEnvironment has just failed a CREATED task on its invalid options
C23_Witness ==
    /\ last.op = "prep_environment"
    /\ ~workflow.valid
    /\ last.exc = "parse"
    /\ last.pre_status = CREATED
    /\ task.status = FAILURE
    /\ Count(queue, "tidy_up") = 1

\* the last step was a poll_jobs iteration in which the scheduler found the job
PollFoundJob == last.op = "poll_jobs" /\ last.sched \in RawStatuses

\* what C25 says of the four buckets: the status each one sets, and that a
\* status in a bucket ends polling
BucketsMapped ==
    /\ last.sched \in SLURM_FAILURE_STATES => task.status = FAILURE
    /\ last.sched \in SLURM_CANCELLED_STATES => task.status = CANCELED
    /\ last.sched \in SLURM_TIMEOUT_STATES => task.status = TIMEOUT
    /\ last.sched \in SLURM_SUCCESS_STATES => task.status = last.pre_status
    /\ Bucket(last.sched) # "none" => Count(last.enq, "poll_jobs") = 0

\* C25 as stated: a found scheduler status sets the task status by bucket,
\* a status in a bucket ends polling, and a status in no bucket keeps the
\* task non-terminal.
C25_PollBucketsAsClaimed ==
    PollFoundJob
        => /\ BucketsMapped
           /\ Bucket(last.sched) = "none" => task.status \notin Terminal

\* C25, amended: a found scheduler status sets the task status by bucket and
\* a status in a bucket ends polling; a status in no bucket leaves the status
\* as it was and re-enqueues PollJobs after the refresh delay, unless the task
\* is past its due time, in which case it becomes FAILURE and polling ends.
C25_PollBuckets ==
    PollFoundJob
        => /\ BucketsMapped
           /\ Bucket(last.sched) = "none"
                 => IF now > task.due_time
                    THEN /\ task.status = FAILURE
                         /\ Count(last.enq, "poll_jobs") = 0
                    ELSE /\ task.status = last.pre_status
                         /\ last.enq = One(Msg("poll_jobs", Guid, now + RefreshDelay, <<>>))

\* a poll found the job of a RUNNING task timed out and set TIMEOUT
C25_Witness ==
    /\ PollFoundJob
    /\ last.sched \in SLURM_TIMEOUT_STATES
    /\ last.pre_status = RUNNING
    /\ task.status = TIMEOUT
    /\ Count(queue, "poll_jobs") = 0

\* C26: when the scheduler reports a status in the failure, cancelled or
\* timeout bucket, that poll enqueues neither TestResults nor TestPush.
C26_VerificationOnlyAfterSuccess ==
    (PollFoundJob /\ Bucket(last.sched) \in {"failure", "cancelled", "timeout"})
        => /\ Count(last.enq, "test_results") = 0
           /\ Count(last.enq, "test_push") = 0

\* C27: the success procedure enqueues TestResults with TestPush and
\* UnshareData chained behind it, and TidyUp on its own after the cleanup
\* delay, and does not change the status; TestPush runs for the task only as
\* the callback of a TestResults that returned, and UnshareData is all that
\* is chained behind it.
C27_SuccessProcedureChains ==
    /\ last.proc = "success"
          => /\ last.enq =
                    One(Msg("test_results", Guid, now, <<"test_push", "unshare_data">>))
                        (+) One(Msg("tidy_up", Guid, now + CleanupDelay, <<>>))
             /\ "status" \in last.changed
                    => Bucket(last.sched) \in {"failure", "cancelled", "timeout"}
    /\ executed["test_push"] <= executed["test_results"]
    /\ \A m \in BagToSet(queue) :
          /\ m.stage = "test_results" => m.callbacks = <<"test_push", "unshare_data">>
          /\ m.stage = "test_push" => m.callbacks = <<"unshare_data">>
          /\ m.stage \in {"unshare_data", "tidy_up"} => m.callbacks = <<>>

\* TestPush has run after TestResults, both enqueued by a poll that saw the
\* job succeed, with UnshareData enqueued behind it and TidyUp still delayed
C27_Witness ==
    /\ last.op = "test_push"
    /\ StageRan
    /\ "success" \in seen
    /\ executed["test_results"] = 1
    /\ executed["test_push"] = 1
    /\ Count(last.enq, "unshare_data") = 1

\* C28: after a PollJobs iteration in which the scheduler found the job, the
\* persisted job_status is the raw status the scheduler returned.
C28_JobStatusMirrorsScheduler ==
    PollFoundJob => task.job_status = last.sched

\* C29: once no stage is pending, a task with a terminal status (CANCELED
\* counted when PollJobs set it from a scheduler status) has completed set.
C29_TerminalHasCompleted ==
    (/\ queue = EmptyBag
     /\ ~deleted
     /\ \/ task.status \in {COMPLETED, FAILURE, TIMEOUT}
        \/ task.status = CANCELED /\ "cancelled" \in seen)
        => task.completed # NoTime

\* C30: at most one PollJobs invocation is pending for the task.
C30_OnePollPending ==
    Count(queue, "poll_jobs") <= 1

C31_ReleaseRemovesOnlyOwnLock ==
    [][\A e \in 1..Executions :
          (/\ periodic[e] = "body"
           /\ periodic'[e] \in ExitPaths
           /\ lock.held
           /\ lock.owner # e) => lock' = lock]_vars


\* C32: the executions are the refresh_cyverse_tokens invocations that
\* refresh_all_user_cyverse_tokens dispatches, one per user, all under the
\* one cache key refresh_cyverse_tokens.name. No invocation is skipped
\* (returns before its body) because the invocation for another user holds
\* the lock at that moment.
C32_NoUserSkippedByAnothersLock ==
    [][\A e \in 1..Executions :
          (periodic[e] # "aborted" /\ periodic'[e] = "aborted")
              => ~(/\ lock.held
                   /\ lock.owner # e
                   /\ periodic[lock.owner] = "body")]_vars


\* C33: submit_jobs submits the inbound transfer (only when the workflow
\* declares an input), then the user workflow, then the outbound transfer;
\* the workflow job is given the inbound job to wait on when there is one,
\* the outbound job is given the workflow job; job_id becomes the outbound
\* job's identifier only when all submissions succeeded, and stays unset
\* when one of them fails.
C33_SubmitOrderAndJobId ==
    (last.op = "submit_jobs" /\ last.message \in {"scheduled", "submit_failed"})
        => LET n    == Len(last.jobs)
               ids  == [i \in 1..n |-> last.jobs[i].id]
               full == IF workflow.input # Nil
                       THEN <<PullId, JobId, PushId>>
                       ELSE <<JobId, PushId>>
           IN  /\ \E k \in 0..Len(full) : ids = SubSeq(full, 1, k)
               /\ \A i \in 1..n :
                      last.jobs[i].after =
                          IF last.jobs[i].id = PushId THEN JobId
                          ELSE IF last.jobs[i].id = JobId /\ workflow.input # Nil
                          THEN PullId
                          ELSE Nil
               /\ (last.message = "scheduled")
                      => ids = full /\ task.job_id = PushId
               /\ (last.message = "submit_failed")
                      => ids # full /\ task.job_id = Nil

\* the outbound submission failed after the inbound and the workflow job were
\* submitted
C33_Witness ==
    /\ last.op = "submit_jobs"
    /\ last.exc = "push"
    /\ Len(last.jobs) = 2
    /\ last.jobs[2].after = PullId
    /\ task.job_id = Nil


\* the path lies inside the public shared directory
UnderSharedDir(path) == path = PublicInput

\* C34: share_data makes no share request and passes the guid on when the
\* owner is the service account; otherwise it asks write access to the
\* output path always, and to the input path exactly when the workflow
\* declares an input whose path is not under the public shared directory and
\* differs from the output path.
C34_ShareRequests ==
    (last.op = "share_data" /\ (last.ret = Guid \/ last.exc = "share"))
        => IF workflow.admin
           THEN last.paths = {} /\ last.remote = {} /\ last.ret = Guid
           ELSE last.paths =
                    {OutputPath} \cup
                        IF /\ workflow.input # Nil
                           /\ ~UnderSharedDir(workflow.input)
                           /\ workflow.input # OutputPath
                        THEN {workflow.input}
                        ELSE {}


\* C35: when expected output files are missing on the agent, test_results
\* leaves the status as it found it, sets results_retrieved, caches exactly
\* the files that exist and returns the guid, so that test_push is applied;
\* it makes the task FAILURE only when its try block raises.
C35_MissingFilesDoNotFail ==
    /\ (last.op = "test_results" /\ last.message = "missing")
           => /\ task.status = last.pre_status
              /\ task.results_retrieved
              /\ cache = [present |-> TRUE, files |-> last.expected]
              /\ last.expected # Outputs
              /\ last.ret = Guid
              /\ ~last.halted
              /\ Count(last.enq, "test_push") = 1
              /\ last.changed \subseteq {"results_retrieved"}
    /\ (last.op = "test_results" /\ "status" \in last.changed)
           => /\ task.status = FAILURE
              /\ last.exc = "list_result_files"

\* one of the two expected files is missing and test_push is queued
C35_Witness ==
    /\ last.op = "test_results"
    /\ last.message = "missing"
    /\ Cardinality(cache.files) = 1
    /\ task.status = COMPLETED
    /\ Count(queue, "test_push") = 1


\* the status a word of the log stands for
Kind(word) ==
    IF word \in {"CANCELLED", "CANCELED"} THEN "CANCELED"
    ELSE IF word = "TIMEOUT" THEN "TIMEOUT"
    ELSE IF word \in {"FAILED", "FAILURE", "NODE_FAIL"} THEN "FAILED"
    ELSE "SUCCESS"

\* the kinds of terminal marker in the log
LogKinds ==
    {Kind(word) : word \in UNION {jobqueue.log.lines[i] :
                                     i \in 1..Len(jobqueue.log.lines)}}

\* C36: get_jobqueue_task_job_status returns the status the log stands for
\* whenever the log holds terminal markers of exactly one kind, and the status
\* of the live query when the log file does not exist or holds no marker.
C36_LogOverridesLiveQuery ==
    jobqueue.result # NotQueried.result
        => /\ (jobqueue.log.exists /\ Cardinality(LogKinds) = 1)
                  => jobqueue.result =
                         [raised |-> "none",
                          status |-> CHOOSE k \in LogKinds : TRUE]
           /\ (~jobqueue.log.exists \/ LogKinds = {})
                  => jobqueue.result =
                         [raised |-> "none",
                          status |-> StripPlus(jobqueue.sacct)]


\* C37: a health check that fails with a connection error is tried
\* MaxAttempts times before the agent is reported unhealthy: (False, output)
\* comes back only when the attempts are used up, and the call never raises.
C37_HealthCheckRetried ==
    health.call.ran
        => /\ health.call.raised = "none"
           /\ (/\ ~health.call.healthy
               /\ health.call.outcomes[health.call.attempts] \in Retryable)
                  => health.call.attempts = MaxAttempts

\* C40: after a run of agents_healthchecks every agent's persisted health
\* flag equals the result of the check made for that agent in the run.
C40_FlagEqualsLastCheck ==
    health.runs > 0
        => \A a \in Agents : health.flag[a] = Head(health.checks[a])


\* C38: composing a task's job script and scheduler directives has no side
\* effect: a call changes no persisted task field, pushes no event, leaves
\* the parameters it was given as they were, and returns the same lines when
\* it is called again with the same inputs.
C38_ComposerHasNoSideEffect ==
    [][composer'.calls # composer.calls
          => /\ composer'.inputs_detected = composer.inputs_detected
             /\ composer'.job_requested_walltime
                    = composer.job_requested_walltime
             /\ composer'.events = composer.events
             /\ composer'.parameters = composer.parameters
             /\ (composer'.args = composer.args)
                    => composer'.lines = composer.lines]_vars


\* C39: a run of create_and_submit_triggered creates a task and enqueues its
\* pipeline exactly when the watched data were modified after the
\* modification time stored on the triggered task; when the data have not
\* changed it creates nothing; and after a run that creates a task the stored
\* modification time is the data's modification time.
C39_TriggeredRunsOnNewData ==
    [][triggered'.runs # triggered.runs
          => /\ (/\ triggered'.created = triggered.created + 1
                 /\ triggered'.enqueued = triggered.enqueued + 1)
                    <=> triggered.data > triggered.modified
             /\ triggered.data <= triggered.modified
                    => /\ triggered'.created = triggered.created
                       /\ triggered'.enqueued = triggered.enqueued
             /\ triggered'.created # triggered.created
                    => triggered'.modified = triggered.data]_vars

=============================================================================
